---- MODULE Spec2Model ----
(***************************************************************************)
(* The DRTIO repeater link state machine of                                *)
(* artiq/firmware/satman/repeater.rs (the has_drtio_routing build).        *)
(*                                                                         *)
(* One Repeater is modelled together with its environment: the link status *)
(* register (link_up), the millisecond clock (now), and the aux channel,   *)
(* whose receive and send outcomes are inputs of the steps that use them.  *)
(* service() and the driver-callable operations are blocking: a call that  *)
(* reaches recv_aux_timeout stays at a program position (pc) and advances  *)
(* one loop iteration per Poll step, while the clock and the link change   *)
(* between iterations.                                                     *)
(***************************************************************************)
EXTENDS Integers, Sequences, FiniteSets, TLC

VARIABLES
    state,       \* self.state: the RepeaterState variant
    ping_count,  \* payload of SendPing / WaitPingReply (0 in the other variants)
    timeout,     \* payload of WaitPingReply (0 in the other variants)
    now,         \* clock::get_ms()
    ticks,       \* number of clock steps taken so far (bounds the model)
    link_up,     \* rep_link_rx_up(self.repno)
    polled,      \* the firmware has run a polling step since the last clock tick
    pc,          \* program position of the call in progress
    top,         \* the operation the driver invoked last (in progress iff pc # "idle")
    dest,        \* set_path's destination while pc = "set_path"
    max_time,    \* recv_aux_timeout's max_time while waiting
    res,         \* result of each operation in the current (or last) driver invocation
    trace,       \* aux/hardware events of the current (or last) driver invocation
    log,         \* info!/error! entries of the current (or last) driver invocation
    echo_sent,   \* history: EchoRequests transmitted since the last Down -> SendPing{0}
    overdue      \* history: the current (or last) driver invocation is a service call
                 \* that found an EchoReply after the ping deadline had passed

vars == <<state, ping_count, timeout, now, ticks, link_up, polled, pc, top, dest,
          max_time, res, trace, log, echo_sent, overdue>>

----------------------------------------------------------------------------
(* Program constants *)

PING_TIMEOUT == 100

MAX_PINGS == 200

TSC_TIMEOUT == 10000

PATH_TIMEOUT == 200

RANK_TIMEOUT == 200

U16 == 65536

(* Bounds of the model *)

\* drtio_routing::DEST_COUNT, the number of routing table entries (scaled down)
DEST_COUNT == 2

\* granularity of the clock: the amount one Tick adds to now
TickStep == 100

\* number of clock steps in a behaviour of Spec
MaxTicks == 6

\* number of clock steps in a behaviour of SpecPing and SpecResponsive: enough
\* for 201 probes sent as soon as the one before has expired
MaxTicksPing == 410

\* number of clock steps in a behaviour of SpecSilent: enough for 201 probes
\* when service is called only once per clock step
MaxTicksSilent == 610

\* number of clock steps after which SpecTerm starts no further service call
MaxTicksTerm == 4

----------------------------------------------------------------------------
(* Values *)

States == {"Down", "SendPing", "WaitPingReply", "Up", "Failed"}

\* the packets the peer may deliver; EchoRequest stands for every type that
\* is none of the three replies the code looks for
Packets == {"EchoReply", "TSCAck", "RoutingAck", "EchoRequest"}

\* drtioaux::recv_link: Ok(None), Err(_), Ok(Some(packet))
RecvOutcomes == {"None", "Err"} \cup Packets

\* drtioaux::send_link: Ok(()), Err(_)
SendOutcomes == {"Ok", "Err"}

Ops == {"sync_tsc", "set_path", "load_routing_table", "set_rank"}

Errors == {"link went down", "timeout", "aux packet error", "unexpected reply"}

NoRes == [o \in Ops |-> "none"]

Waits == {"sync_tsc", "set_path", "set_rank"}

\* program positions of set_path and set_rank after send_link has returned
\* and before recv_aux_timeout reads the clock for its deadline
Entries == {"enter_set_path", "enter_set_rank"}

EntryPc(fn) == IF fn = "set_path" THEN "enter_set_path" ELSE "enter_set_rank"

WaitOf(p) == IF p = "enter_set_path" THEN "set_path" ELSE "set_rank"

----------------------------------------------------------------------------
(* Pure pieces of the code *)

\* the guard confused with `self.state == RepeaterState::Down`
NotUp_OnlyDown(st) == st = "Down"

\* the guard `self.state != RepeaterState::Up` of sync_tsc, set_path, set_rank
NotUp(st) == st # "Up"

\* a link-down in Failed restarts the handshake directly
OnLinkDown_Reping(st) == IF st = "Failed" THEN "SendPing" ELSE "Down"

\* Failed treated as terminal: a link-down does not leave it
OnLinkDown_FailedSticks(st) == IF st = "Failed" THEN "Failed" ELSE "Down"

\* `self.state = RepeaterState::Down` of the link-down branches of service
\* (taken from SendPing, WaitPingReply, Up and Failed)
OnLinkDown(st) == "Down"

\* the increment forgotten
NextPingCount_Same(n) == n

\* `ping_count + 1` on a u16 leaves the range of the type
AddOverflows(n) == n + 1 >= U16

\* the value of `ping_count + 1` on a u16; when the addition overflows this is
\* the wrapped value of a build without overflow checks (a build with
\* overflow checks panics instead, see ServiceCall)
NextPingCount(n) == (n + 1) % U16

\* the budget left out: the deadline is the time of the send
PingDeadline_NoBudget(t) == t

\* `timeout: clock::get_ms() + 100`
PingDeadline(t) == t + PING_TIMEOUT

\* the deadline compared with >= instead of >
Expired_NonStrict(t, deadline) == t >= deadline

\* the comparison left out: no deadline is ever found passed
Expired_Never(t, deadline) == FALSE

\* `clock::get_ms() > timeout` / `clock::get_ms() > max_time`
Expired(t, deadline) == t > deadline

\* the cap compared with >= instead of >
PingsExhausted_OffByOne(n) == n >= MAX_PINGS

\* `ping_count > 200`
PingsExhausted(n) == n > MAX_PINGS

\* the pattern matching any packet
IsEchoReply_AnyPacket(rcv) == rcv \in Packets

\* the `if let Ok(Some(Packet::EchoReply))` pattern of the WaitPingReply branch
IsEchoReply(rcv) == rcv = "EchoReply"

\* budget of the wait that operation fn starts
WaitBudget(fn) ==
    CASE fn = "sync_tsc" -> TSC_TIMEOUT
      [] fn = "set_path" -> PATH_TIMEOUT
      [] fn = "set_rank" -> RANK_TIMEOUT

\* `let max_time = clock::get_ms() + timeout as u64`
MaxTime(t, budget) == t + budget

\* the receive tried before the deadline is tested
RecvAuxStep_RecvFirst(up, t, deadline, rcv) ==
    IF ~up THEN "link went down"
    ELSE IF rcv = "Err" THEN "aux packet error"
    ELSE IF rcv # "None" THEN rcv
    ELSE IF t > deadline THEN "timeout"
    ELSE "again"

\* the link check of the loop left out
RecvAuxStep_NoLinkCheck(up, t, deadline, rcv) ==
    IF t > deadline THEN "timeout"
    ELSE IF rcv = "Err" THEN "aux packet error"
    ELSE IF rcv = "None" THEN "again"
    ELSE rcv

\* One iteration of recv_aux_timeout's loop: an error, "again", or the packet.
RecvAuxStep(up, t, deadline, rcv) ==
    IF ~up THEN "link went down"
    ELSE IF Expired(t, deadline) THEN "timeout"
    ELSE IF rcv = "Err" THEN "aux packet error"
    ELSE IF rcv = "None" THEN "again"
    ELSE rcv

\* the type of the packet not examined: any packet counts as the ack
SyncTscReply_AcceptAny(r) == IF r \in Errors THEN r ELSE "Ok"

\* the result of recv_aux_timeout dropped: sync_tsc always succeeds
SyncTscReply_Ignored(r) == "Ok"

\* what sync_tsc returns for the value recv_aux_timeout returned
SyncTscReply(r) ==
    IF r \in Errors THEN r
    ELSE IF r = "TSCAck" THEN "Ok" ELSE "unexpected reply"

\* the type of the packet not examined: any packet counts as the RoutingAck
SetPathReply_AcceptAny(r) == IF r \in Errors THEN r ELSE "Ok"

\* what set_path returns for the value recv_aux_timeout returned
SetPathReply(r) ==
    IF r \in Errors THEN r
    ELSE IF r # "RoutingAck" THEN "unexpected reply" ELSE "Ok"

\* the comparison inverted: RoutingAck rejected
SetRankReply_Inverted(r) ==
    IF r \in Errors THEN r
    ELSE IF r = "RoutingAck" THEN "unexpected reply" ELSE "Ok"

\* what set_rank returns for the value recv_aux_timeout returned
SetRankReply(r) ==
    IF r \in Errors THEN r
    ELSE IF r # "RoutingAck" THEN "unexpected reply" ELSE "Ok"

FnReply(fn, r) ==
    CASE fn = "sync_tsc" -> SyncTscReply(r)
      [] fn = "set_path" -> SetPathReply(r)
      [] fn = "set_rank" -> SetRankReply(r)

----------------------------------------------------------------------------
(* Control flow between the operations.  A control point is a record:      *)
(*   [k |-> "call", fn, i, res]  the operation fn is about to be entered   *)
(*   [k |-> "ret",  res]         the driver's invocation returns           *)
(*   [k |-> "fail", res]         service stores Failed and returns         *)

Call(fn, i, rs) == [k |-> "call", fn |-> fn, i |-> i, res |-> rs]

Ret(rs) == [k |-> "ret", fn |-> "none", i |-> 0, res |-> rs]

Fail(rs) == [k |-> "fail", fn |-> "none", i |-> 0, res |-> rs]

\* the error of a bring-up step not acted upon
BringUpAborts_Never(r) == FALSE

\* `if let Err(e) = self.step() { ...; self.state = Failed; return; }` in service
BringUpAborts(r) == r # "Ok"

\* the `?` left out: the loop goes on after a failed set_path
PathAborts_Never(r) == FALSE

\* the `?` after self.set_path(..) in load_routing_table
PathAborts(r) == r # "Ok"

\* `for i in 0..DEST_COUNT`: is there an iteration for index i
LoopHas(i) == i < DEST_COUNT

RECURSIVE AfterReturn(_, _, _, _, _)
\* Operation fn (at destination i) has returned r inside the driver's
\* invocation tp: the control point its caller goes to.
AfterReturn(tp, fn, i, r, rs) ==
    LET rs1 == [rs EXCEPT ![fn] = r] IN
    CASE fn = "sync_tsc" ->
           IF tp # "service" THEN Ret(rs1)
           ELSE IF BringUpAborts(r) THEN Fail(rs1)
           ELSE IF LoopHas(0) THEN Call("set_path", 0, rs1)
           ELSE AfterReturn(tp, "load_routing_table", 0, "Ok", rs1)
      [] fn = "set_path" ->
           IF tp = "set_path" THEN Ret(rs1)
           ELSE IF PathAborts(r) THEN AfterReturn(tp, "load_routing_table", 0, r, rs1)
           ELSE IF LoopHas(i + 1) THEN Call("set_path", i + 1, rs1)
           ELSE AfterReturn(tp, "load_routing_table", 0, "Ok", rs1)
      [] fn = "load_routing_table" ->
           IF tp # "service" THEN Ret(rs1)
           ELSE IF BringUpAborts(r) THEN Fail(rs1)
           ELSE Call("set_rank", 0, rs1)
      [] fn = "set_rank" ->
           IF tp # "service" THEN Ret(rs1)
           ELSE IF BringUpAborts(r) THEN Fail(rs1)
           ELSE Ret(rs1)

RECURSIVE Settle(_, _, _)
\* An operation entered while the state is not Up returns Ok at once; follow
\* the control flow until an operation engages the hardware or the
\* invocation returns.
Settle(tp, c, st) ==
    IF c.k = "call" /\ NotUp(st)
    THEN Settle(tp, AfterReturn(tp, c.fn, c.i, "Ok", c.res), st)
    ELSE c

\* the first control point of the driver's invocation of op (destination i)
Entry(op, i) ==
    IF op = "load_routing_table"
    THEN (IF LoopHas(0) THEN Call("set_path", 0, NoRes)
          ELSE AfterReturn(op, "load_routing_table", 0, "Ok", NoRes))
    ELSE Call(op, i, NoRes)

\* the packet an operation sends when it is entered in state Up
Request(fn, i) ==
    CASE fn = "set_path" -> <<"tx", "RoutingSetPath", i>>
      [] fn = "set_rank" -> <<"tx", "RoutingSetRank", 0>>

\* every failing operation marks the link Failed, whoever called it
StateAt_FailAnywhere(c, st) ==
    IF c.k = "fail" \/ (c.k = "ret" /\ \E o \in Ops : c.res[o] \in Errors)
    THEN "Failed" ELSE st

\* The state the repeater is left in at control point c, st being the state
\* before: only service's failure path stores a state.
StateAt(c, st) == IF c.k = "fail" THEN "Failed" ELSE st

\* the steps of service's bring-up sequence
BringUpSteps == {"sync_tsc", "load_routing_table", "set_rank"}

\* a log entry: level, text, the number and the error it is formatted with
Info(text, n) == <<"info", text, n, "">>

Error(text, e) == <<"error", text, 0, e>>

\* the error! entry of service for the bring-up step that returned Err(e)
FailLog(step, e) ==
    CASE step = "sync_tsc" -> Error("failed to sync TSC", e)
      [] step = "load_routing_table" -> Error("failed to sync TSC", e)
      [] step = "set_rank" -> Error("failed to sync TSC", e)

\* the bring-up step whose error made service give up
FailedStep(rs) == CHOOSE o \in BringUpSteps : rs[o] \in Errors

\* the log at control point c, lg being the log before
LogAt(c, lg) ==
    IF c.k = "fail"
    THEN Append(lg, FailLog(FailedStep(c.res), c.res[FailedStep(c.res)]))
    ELSE lg

\* Take control point c: enter the operation (trigger the timestamp
\* broadcast, or send the request; the wait is entered by a later step, which
\* reads the clock again), or return.
Dispatch(c, st, tr, snd) ==
    /\ state' = StateAt(c, st)
    /\ res' = c.res
    /\ IF c.k # "call"
       THEN /\ pc' = "idle"
            /\ dest' = 0
            /\ max_time' = 0
            /\ trace' = tr
       ELSE IF c.fn = "sync_tsc"
       THEN /\ pc' = "set_time"
            /\ dest' = 0
            /\ max_time' = 0
            /\ trace' = Append(tr, <<"hw", "set_time", 0>>)
       ELSE IF snd = "Err"
       THEN /\ pc' = "panic"
            /\ dest' = 0
            /\ max_time' = 0
            /\ trace' = tr
       ELSE /\ pc' = EntryPc(c.fn)
            /\ dest' = c.i
            /\ max_time' = 0
            /\ trace' = Append(tr, Request(c.fn, c.i))

----------------------------------------------------------------------------
(* Initial state: Repeater::new *)

Init ==
    /\ state = "Down"
    /\ ping_count = 0
    /\ timeout = 0
    /\ now = 0
    /\ ticks = 0
    /\ link_up \in BOOLEAN
    /\ polled = FALSE
    /\ pc = "idle"
    /\ top = "none"
    /\ dest = 0
    /\ max_time = 0
    /\ res = NoRes
    /\ trace = <<>>
    /\ log = <<>>
    /\ echo_sent = 0
    /\ overdue = FALSE

----------------------------------------------------------------------------
(* Repeater::service: one call, up to its return or its first wait *)

ServiceCall(rcv, snd) ==
    /\ pc = "idle"
    /\ top' = "service"
    /\ polled' = TRUE
    /\ overdue' = (state = "WaitPingReply" /\ link_up /\ rcv = "EchoReply" /\ now > timeout)
    /\ UNCHANGED <<now, ticks, link_up>>
    /\ CASE state = "Down" ->
              /\ IF link_up
                 THEN /\ state' = "SendPing" /\ echo_sent' = 0
                      /\ log' = << Info("link RX became up, pinging", 0) >>
                 ELSE /\ UNCHANGED <<state, echo_sent>>
                      /\ log' = <<>>
              /\ trace' = <<>>
              /\ res' = NoRes
              /\ UNCHANGED <<ping_count, timeout, pc, dest, max_time>>
         [] state = "SendPing" ->
              /\ res' = NoRes
              /\ UNCHANGED <<dest, max_time>>
              /\ IF link_up
                 THEN IF snd = "Err"
                      THEN /\ pc' = "panic"
                           /\ trace' = <<>>
                           /\ log' = <<>>
                           /\ UNCHANGED <<state, ping_count, timeout, echo_sent>>
                      ELSE /\ trace' = << <<"tx", "EchoRequest", 0>> >>
                           /\ log' = <<>>
                           /\ echo_sent' = echo_sent + 1
                           /\ \/ /\ state' = "WaitPingReply"
                                 /\ ping_count' = NextPingCount(ping_count)
                                 /\ timeout' = PingDeadline(now)
                                 /\ pc' = pc
                              \/ /\ AddOverflows(ping_count)
                                 /\ pc' = "panic"
                                 /\ UNCHANGED <<state, ping_count, timeout>>
                 ELSE /\ state' = OnLinkDown(state)
                      /\ ping_count' = 0
                      /\ timeout' = 0
                      /\ trace' = <<>>
                      /\ log' = << Error("link RX went down during ping", "") >>
                      /\ UNCHANGED <<pc, echo_sent>>
         [] state = "WaitPingReply" ->
              IF link_up
              THEN IF IsEchoReply(rcv)
                   THEN /\ ping_count' = 0
                        /\ timeout' = 0
                        /\ Dispatch(Settle("service", Call("sync_tsc", 0, NoRes), "Up"),
                                    "Up", << <<"rx", rcv, 0>> >>, snd)
                        /\ log' = LogAt(Settle("service", Call("sync_tsc", 0, NoRes), "Up"),
                                        << Info("remote replied after packets", ping_count) >>)
                        /\ UNCHANGED echo_sent
                   ELSE /\ trace' = IF rcv = "None" THEN <<>> ELSE << <<"rx", rcv, 0>> >>
                        /\ res' = NoRes
                        /\ UNCHANGED <<pc, dest, max_time, echo_sent>>
                        /\ IF Expired(now, timeout)
                           THEN IF PingsExhausted(ping_count)
                                THEN /\ state' = "Failed"
                                     /\ ping_count' = 0
                                     /\ timeout' = 0
                                     /\ log' = << Error("ping failed", "") >>
                                ELSE /\ state' = "SendPing"
                                     /\ ping_count' = ping_count
                                     /\ timeout' = 0
                                     /\ log' = <<>>
                           ELSE /\ UNCHANGED <<state, ping_count, timeout>>
                                /\ log' = <<>>
              ELSE /\ state' = OnLinkDown(state)
                   /\ ping_count' = 0
                   /\ timeout' = 0
                   /\ trace' = <<>>
                   /\ log' = << Error("link RX went down during ping", "") >>
                   /\ res' = NoRes
                   /\ UNCHANGED <<pc, dest, max_time, echo_sent>>
         [] state \in {"Up", "Failed"} ->
              /\ state' = IF ~link_up THEN OnLinkDown(state) ELSE state
              /\ log' = IF ~link_up THEN << Info("link is down", 0) >> ELSE <<>>
              /\ trace' = <<>>
              /\ res' = NoRes
              /\ UNCHANGED <<ping_count, timeout, pc, dest, max_time, echo_sent>>

\* sync_tsc's hardware handshake completes (set_time reads 0) and
\* recv_aux_timeout(10000) is entered
SetTimeDone ==
    /\ pc = "set_time"
    /\ pc' = "sync_tsc"
    /\ max_time' = MaxTime(now, WaitBudget("sync_tsc"))
    /\ polled' = TRUE
    /\ UNCHANGED <<state, ping_count, timeout, now, ticks, link_up, top, dest, res,
                   trace, log, echo_sent, overdue>>

\* set_path or set_rank, its request sent, enters recv_aux_timeout(200), which
\* reads the clock for its deadline
WaitEntry ==
    /\ pc \in Entries
    /\ pc' = WaitOf(pc)
    /\ max_time' = MaxTime(now, WaitBudget(WaitOf(pc)))
    /\ polled' = TRUE
    /\ UNCHANGED <<state, ping_count, timeout, now, ticks, link_up, top, dest, res,
                   trace, log, echo_sent, overdue>>

\* one iteration of recv_aux_timeout's loop and, when it returns, the code
\* that follows it up to the next request sent or the return to the driver
PollStep(rcv, snd) ==
    /\ pc \in Waits
    /\ polled' = TRUE
    /\ UNCHANGED <<ping_count, timeout, now, ticks, link_up, top, echo_sent, overdue>>
    /\ LET r == RecvAuxStep(link_up, now, max_time, rcv) IN
       IF r = "again"
       THEN UNCHANGED <<state, pc, dest, max_time, res, trace, log>>
       ELSE LET tr == IF r \in {"link went down", "timeout"}
                      THEN trace ELSE Append(trace, <<"rx", rcv, 0>>)
                c == Settle(top, AfterReturn(top, pc, dest, FnReply(pc, r), res), state)
            IN Dispatch(c, state, tr, snd) /\ log' = LogAt(c, log)

\* the driver invokes sync_tsc, set_path(i, ..), load_routing_table or set_rank
DriverCall(op, i, snd) ==
    /\ pc = "idle"
    /\ top' = op
    /\ polled' = IF Settle(op, Entry(op, i), state).k = "call" THEN TRUE ELSE polled
    /\ overdue' = FALSE
    /\ UNCHANGED <<ping_count, timeout, now, ticks, link_up, echo_sent>>
    /\ Dispatch(Settle(op, Entry(op, i), state), state, <<>>, snd)
    /\ log' = LogAt(Settle(op, Entry(op, i), state), <<>>)

----------------------------------------------------------------------------
(* Environment *)

\* The millisecond clock advances by d, at most limit times in a behaviour;
\* the firmware runs a polling step between any two clock steps.
ClockStep(d, limit) ==
    /\ pc # "panic"
    /\ polled
    /\ ticks < limit
    /\ ticks' = ticks + 1
    /\ now' = now + d
    /\ polled' = FALSE
    /\ UNCHANGED <<state, ping_count, timeout, link_up, pc, top, dest, max_time,
                   res, trace, log, echo_sent, overdue>>

\* the link status register changes
LinkChange ==
    /\ pc # "panic"
    /\ link_up' = ~link_up
    /\ UNCHANGED <<state, ping_count, timeout, now, ticks, polled, pc, top, dest,
                   max_time, res, trace, log, echo_sent, overdue>>

----------------------------------------------------------------------------
(* Spec: every behaviour of the repeater and its environment *)

Service == \E rcv \in RecvOutcomes, snd \in SendOutcomes : ServiceCall(rcv, snd)

Poll == \E rcv \in RecvOutcomes, snd \in SendOutcomes : PollStep(rcv, snd)

Driver == \E op \in Ops, i \in 0..(DEST_COUNT - 1), snd \in SendOutcomes :
             DriverCall(op, i, snd)

\* one clock tick, or a whole TSC budget at once
Tick == \E d \in {TickStep, TSC_TIMEOUT} : ClockStep(d, MaxTicks)

Next == Service \/ SetTimeDone \/ WaitEntry \/ Poll \/ Driver \/ Tick \/ LinkChange

Spec == Init /\ [][Next]_vars

----------------------------------------------------------------------------
(* SpecPing: one ping handshake followed to its end.  The peer never sends *)
(* an EchoReply, the link may flap during the first MaxTicks clock steps   *)
(* and stays as it is afterwards, the clock advances tick by tick.         *)

ServicePing ==
    \E rcv \in RecvOutcomes \ {"EchoReply"}, snd \in SendOutcomes : ServiceCall(rcv, snd)

TickPing == ClockStep(TickStep, MaxTicksPing)

LinkChangeEarly == ticks < MaxTicks /\ LinkChange

NextPing == ServicePing \/ TickPing \/ LinkChangeEarly

SpecPing == Init /\ [][NextPing]_vars

----------------------------------------------------------------------------
(* SpecLate: as SpecPing, but the peer answers the last probe: an EchoReply *)
(* is delivered once ping_count has passed MAX_PINGS, before or after the   *)
(* deadline of that probe, and the bring-up sequence that follows is run.   *)

ServiceLate ==
    \E rcv \in RecvOutcomes, snd \in SendOutcomes :
        /\ rcv = "EchoReply" => ping_count > MAX_PINGS
        /\ ServiceCall(rcv, snd)

NextLate ==
    ServiceLate \/ SetTimeDone \/ WaitEntry \/ Poll \/ TickPing \/ LinkChangeEarly

SpecLate == Init /\ [][NextLate]_vars

----------------------------------------------------------------------------
(* SpecSilent: the link is up and stays up, the aux channel never delivers *)
(* anything, sends succeed, service keeps being called and the clock keeps *)
(* advancing.                                                              *)

InitUp == Init /\ link_up

ServiceSilent == ServiceCall("None", "Ok")

TickSilent == ClockStep(TickStep, MaxTicksSilent)

NextSilent == ServiceSilent \/ TickSilent

SpecSilent ==
    InitUp /\ [][NextSilent]_vars /\ WF_vars(ServiceSilent) /\ WF_vars(TickSilent)

----------------------------------------------------------------------------
(* SpecTerm: termination of service.  The driver calls service only, with   *)
(* any receive and send outcomes, while the link changes freely.  The       *)
(* clock keeps advancing: a call in progress is never cut off by the bound  *)
(* of the model while the deadline of its wait has not passed.  A polling   *)
(* iteration that receives nothing is always possible, so the peer may stay *)
(* silent for good.                                                         *)

ServiceTerm == ticks < MaxTicksTerm /\ Service

\* an iteration of recv_aux_timeout's loop in which recv_link returns Ok(None)
PollQuiet == PollStep("None", "Ok")

TickTerm ==
    \/ \E d \in {TickStep, TSC_TIMEOUT} : ClockStep(d, MaxTicksTerm)
    \/ pc \in Waits /\ now <= max_time /\ ClockStep(WaitBudget(pc), ticks + 1)

NextTerm ==
    ServiceTerm \/ SetTimeDone \/ WaitEntry \/ Poll \/ TickTerm \/ LinkChange

SpecTerm ==
    /\ Init /\ [][NextTerm]_vars
    /\ WF_vars(SetTimeDone) /\ WF_vars(WaitEntry)
    /\ WF_vars(PollQuiet) /\ WF_vars(TickTerm)

----------------------------------------------------------------------------
(* SpecResponsive: the link is up and stays up, sends succeed, and the     *)
(* peer answers in time: the reply the code is waiting for is delivered    *)
(* before the clock passes the deadline of the wait.                       *)

\* the reply the peer sends to what the repeater is waiting for
Expected(p) == IF p = "sync_tsc" THEN "TSCAck" ELSE "RoutingAck"

\* a reply is awaited and the next tick would pass its deadline
ReplyDue ==
    \/ state = "WaitPingReply" /\ now + TickStep > timeout
    \/ pc \in Waits /\ now + TickStep > max_time

ServiceResponsive == \E rcv \in {"None", "EchoReply"} : ServiceCall(rcv, "Ok")

PollResponsive == \E rcv \in {"None", Expected(pc)} : PollStep(rcv, "Ok")

TickResponsive == ~ReplyDue /\ ClockStep(TickStep, MaxTicksPing)

NextResponsive ==
    \/ ServiceResponsive \/ SetTimeDone \/ WaitEntry
    \/ PollResponsive \/ TickResponsive

SpecResponsive ==
    /\ InitUp
    /\ [][NextResponsive]_vars
    /\ WF_vars(ServiceResponsive)
    /\ WF_vars(SetTimeDone)
    /\ WF_vars(WaitEntry)
    /\ WF_vars(PollResponsive)
    /\ WF_vars(TickResponsive)

----------------------------------------------------------------------------
(* Properties *)

TypeOK ==
    /\ state \in States
    /\ ping_count \in 0..(U16 - 1)
    /\ timeout \in Nat
    /\ now \in Nat
    /\ ticks \in Nat
    /\ link_up \in BOOLEAN
    /\ polled \in BOOLEAN
    /\ pc \in {"idle", "set_time", "panic"} \cup Entries \cup Waits
    /\ top \in {"none", "service"} \cup Ops
    /\ dest \in 0..DEST_COUNT
    /\ max_time \in Nat
    /\ res \in [Ops -> {"none", "Ok"} \cup Errors]
    /\ log \in Seq({"info", "error"} \X STRING \X Nat \X ({""} \cup Errors))
    /\ Len(log) <= 2
    /\ echo_sent \in Nat
    /\ overdue \in BOOLEAN

\* the events of trace that are transmissions on the aux channel
Sent == {p \in 1..Len(trace) : trace[p][1] = "tx"}

RxEchoReply == <<"rx", "EchoReply", 0>>

RxTSCAck == <<"rx", "TSCAck", 0>>

RxRoutingAck == <<"rx", "RoutingAck", 0>>

\* the last call of service found an EchoReply and ran the bring-up sequence
BringUpRun == top = "service" /\ trace # <<>> /\ trace[1] = RxEchoReply

\* C1: a service call that reads the link status as down leaves the state
\* Down, whatever the state was (SendPing, WaitPingReply, Up, Failed or
\* Down), returns at once and sends no packet.
C1_LinkDownToDown ==
    [][(Service /\ ~link_up) =>
         (state' = "Down" /\ pc' = "idle" /\ trace' = <<>>
            /\ ping_count' = 0 /\ timeout' = 0)]_vars

\* a link-down was handled by service after a handshake had been started
C1_Witness ==
    /\ top = "service" /\ pc = "idle" /\ ~link_up
    /\ state = "Down" /\ echo_sent > 0 /\ polled

\* C2: when service has found an EchoReply in WaitPingReply and returned,
\* the state is Up iff sync_tsc, load_routing_table and set_rank all
\* returned Ok, each run only after the one before it succeeded; otherwise
\* the state is Failed.
C2_UpIffAllSucceed ==
    (BringUpRun /\ pc = "idle") =>
        /\ state \in {"Up", "Failed"}
        /\ state = "Up" <=> (/\ res["sync_tsc"] = "Ok"
                             /\ res["load_routing_table"] = "Ok"
                             /\ res["set_rank"] = "Ok")
        /\ (\E o \in Ops : res[o] \in Errors) => state = "Failed"
        /\ res["sync_tsc"] # "none"
        /\ res["load_routing_table"] # "none" => res["sync_tsc"] = "Ok"
        /\ res["set_rank"] # "none" => res["load_routing_table"] = "Ok"

\* the bring-up got as far as set_rank, which failed
C2_Witness ==
    /\ BringUpRun /\ pc = "idle" /\ state = "Failed"
    /\ res["sync_tsc"] = "Ok" /\ res["load_routing_table"] = "Ok"
    /\ res["set_rank"] \in Errors

\* C3: during a handshake ping_count equals the number of EchoRequests
\* transmitted since Down -> SendPing{0}, and that number never exceeds 201.
C3_PingCountCountsProbes ==
    /\ state \in {"SendPing", "WaitPingReply"} => ping_count = echo_sent
    /\ state = "WaitPingReply" => ping_count >= 1
    /\ echo_sent <= MAX_PINGS + 1

\* the last allowed probe has been sent
C3_Witness ==
    state = "WaitPingReply" /\ ping_count = MAX_PINGS + 1 /\ echo_sent = MAX_PINGS + 1

\* C4: sync_tsc, set_path, load_routing_table and set_rank invoked while the
\* state is not Up return Ok at once: nothing is sent, nothing is received,
\* the timestamp broadcast is not triggered and the state is unchanged.
C4_NoOpUnlessUp ==
    [][(Driver /\ state # "Up") =>
         (/\ pc' = "idle"
          /\ res'[top'] = "Ok"
          /\ \A o \in Ops : res'[o] \in {"none", "Ok"}
          /\ trace' = <<>>
          /\ UNCHANGED <<state, ping_count, timeout>>)]_vars

\* load_routing_table was invoked on a Failed repeater
C4_Witness ==
    /\ top = "load_routing_table" /\ state = "Failed" /\ pc = "idle"
    /\ res["load_routing_table"] = "Ok" /\ trace = <<>>

\* the part of trace that load_routing_table produced
PathBase == IF top = "service" THEN 3 ELSE 0

PathLen ==
    IF Len(trace) <= PathBase THEN 0
    ELSE IF Len(trace) - PathBase > 2 * DEST_COUNT THEN 2 * DEST_COUNT
    ELSE Len(trace) - PathBase

PathLog == [p \in 1..PathLen |-> trace[PathBase + p]]

LoadRunning == top \in {"service", "load_routing_table"} /\ PathLen > 0

\* C5: load_routing_table in state Up sends RoutingSetPath for destinations
\* 0, 1, 2, ... in this order, each one after the RoutingAck of the one
\* before, at most DEST_COUNT in all, and returns the error of the first
\* request that is not acknowledged without sending another request.
C5_PathsInOrderUntilFailure ==
    top \in {"service", "load_routing_table"} =>
        /\ Cardinality({p \in Sent : trace[p][2] = "RoutingSetPath"}) <= DEST_COUNT
        /\ \A p \in Sent : trace[p][2] = "RoutingSetPath" =>
              /\ p > PathBase /\ p <= PathBase + PathLen
              /\ (p - PathBase) % 2 = 1
              /\ trace[p][3] = (p - PathBase - 1) \div 2
              /\ p > PathBase + 1 => trace[p - 1] = RxRoutingAck
        /\ \A p \in 1..PathLen :
              /\ p % 2 = 1 => PathLog[p] = <<"tx", "RoutingSetPath", (p - 1) \div 2>>
              /\ p % 2 = 0 => PathLog[p][1] = "rx"
              /\ (p % 2 = 0 /\ PathLog[p] # RxRoutingAck) =>
                    /\ Len(trace) = PathBase + p
                    /\ pc = "idle"
                    /\ res["load_routing_table"] = "unexpected reply"
                                 \/ res["load_routing_table"] = "aux packet error"
        /\ pc = "set_path" => (PathLen % 2 = 1 /\ dest = (PathLen - 1) \div 2)
        /\ (res["set_path"] \in Errors /\ top = "load_routing_table") =>
              /\ pc = "idle"
              /\ res["load_routing_table"] = res["set_path"]
        /\ (res["load_routing_table"] = "Ok" /\ res["sync_tsc"] # "none") =>
              /\ PathLen = 2 * DEST_COUNT
              /\ PathLog[PathLen] = RxRoutingAck
        /\ (res["load_routing_table"] = "Ok" /\ top = "load_routing_table"
              /\ state = "Up") =>
              /\ PathLen = 2 * DEST_COUNT
              /\ PathLog[PathLen] = RxRoutingAck

\* the driver's load_routing_table stopped at the second destination
C5_Witness ==
    /\ top = "load_routing_table" /\ pc = "idle" /\ state = "Up"
    /\ Len(trace) = 4
    /\ trace[3] = <<"tx", "RoutingSetPath", 1>>
    /\ res["load_routing_table"] = "unexpected reply"

\* C6: in service's bring-up no RoutingSetPath is sent before a TSCAck was
\* received, no RoutingSetRank before all DEST_COUNT paths were acknowledged,
\* and when the TSCAck times out the state is Failed and no routing packet
\* was sent.
C6_BringUpSequential ==
    top = "service" =>
        /\ \A p \in Sent : trace[p][2] = "RoutingSetPath" =>
              \E q \in 1..(p - 1) : trace[q] = RxTSCAck
        /\ \A p \in Sent : trace[p][2] = "RoutingSetRank" =>
              /\ \E q \in 1..(p - 1) : trace[q] = RxTSCAck
              /\ \A i \in 0..(DEST_COUNT - 1) :
                    \E q \in 1..(p - 2) :
                       /\ trace[q] = <<"tx", "RoutingSetPath", i>>
                       /\ trace[q + 1] = RxRoutingAck
        /\ (BringUpRun /\ pc = "idle" /\ res["sync_tsc"] # "Ok") =>
              /\ state = "Failed"
              /\ Sent = {}

\* the TSCAck did not arrive within its budget
C6_Witness ==
    /\ BringUpRun /\ pc = "idle" /\ res["sync_tsc"] = "timeout"
    /\ state = "Failed" /\ Sent = {}

\* C7: with the link up, no packet ever received, service called again and
\* again and the clock advancing, the repeater reaches Failed, has sent
\* exactly 201 EchoRequests when it does, and is never Up.
C7_SilentPeerFails ==
    /\ <>(state = "Failed")
    /\ [](state = "Failed" => echo_sent = MAX_PINGS + 1)
    /\ [](state # "Up")

\* Failed was reached after 201 probes
C7_Witness == state = "Failed" /\ echo_sent = MAX_PINGS + 1 /\ top = "service"

\* C8: with the link up and every reply delivered within its deadline, the
\* repeater reaches Up and stays Up.
C8_ResponsivePeerUp == <>[](state = "Up" /\ pc = "idle")

\* the bring-up completed: every step was acknowledged
C8_Witness ==
    /\ state = "Up" /\ pc = "idle" /\ BringUpRun
    /\ res["set_rank"] = "Ok" /\ Len(trace) = 5 + 2 * DEST_COUNT

\* C9: no step of an operation invoked by the driver changes the repeater's
\* state, and when such an operation fails the error is what the driver gets
\* while the state is still Up.
C9_DriverErrorsLeaveState ==
    /\ [][top' \in Ops => UNCHANGED <<state, ping_count, timeout>>]_vars
    /\ []((top \in Ops /\ pc = "idle" /\ \E o \in Ops : res[o] \in Errors) =>
            (state = "Up" /\ res[top] \in Errors))

\* the driver's sync_tsc timed out
C9_Witness ==
    top = "sync_tsc" /\ pc = "idle" /\ res["sync_tsc"] = "timeout" /\ state = "Up"

\* C10 as stated: once a wait of service's bring-up was aborted because the
\* link went down, the state is Down.
C10_AbortResetsToDown ==
    (top = "service" /\ pc = "idle" /\ \E o \in Ops : res[o] = "link went down") =>
        state = "Down"

\* C10 amended: the poll iteration of a bring-up wait that finds the link
\* down ends the service call with state Failed and sends nothing more; the
\* next service call that reads the link as down stores Down.
C10_AbortFailsThenDown ==
    /\ [][(Poll /\ top = "service" /\ ~link_up) =>
            (pc' = "idle" /\ state' = "Failed" /\ trace' = trace
               /\ res'[pc] = "link went down")]_vars
    /\ [][(Service /\ state = "Failed" /\ ~link_up) => state' = "Down"]_vars

\* a bring-up wait for a RoutingAck was aborted by a link-down
C10_Witness ==
    /\ top = "service" /\ pc = "idle" /\ state = "Failed"
    /\ res["set_path"] = "link went down" /\ ~link_up

\* C11: a transport error reported by recv_link is never swallowed: once the
\* call that received it has returned, an operation has returned an error or
\* the state is Failed.
C11_RecvErrorNotSwallowed ==
    (pc = "idle" /\ \E p \in 1..Len(trace) : trace[p] = <<"rx", "Err", 0>>) =>
        \/ \E o \in Ops : res[o] \in Errors
        \/ state = "Failed"

\* C12: a service call in Failed with the link up leaves Failed and sends
\* nothing; Failed is only left for Down, by a service call that reads the
\* link as down; and a handshake only ever starts from Down, with
\* ping_count 0.
C12_FailedUntilLinkDown ==
    /\ [][(Service /\ state = "Failed" /\ link_up) =>
            (state' = "Failed" /\ pc' = "idle" /\ trace' = <<>>)]_vars
    /\ [][(state = "Failed" /\ state' # "Failed") =>
            (state' = "Down" /\ Service /\ ~link_up)]_vars
    /\ [][(state' = "SendPing" /\ state # "WaitPingReply") =>
            (state \in {"Down", "SendPing"} /\ ping_count' = IF state = "Down" THEN 0 ELSE ping_count)]_vars

\* service was called on a Failed repeater whose link is up
C12_Witness ==
    /\ state = "Failed" /\ top = "service" /\ pc = "idle" /\ link_up
    /\ res = NoRes /\ trace = <<>> /\ polled

\* C13: when a step of the bring-up sequence fails, service logs an error entry
\* that identifies the step: the entry reads as a clock-sync failure exactly
\* when the step that failed is sync_tsc, so that a load_routing_table or
\* set_rank failure is told apart from it.
C13_LogIdentifiesStep ==
    (BringUpRun /\ pc = "idle" /\ state = "Failed") =>
        /\ log # <<>>
        /\ log[Len(log)][1] = "error"
        /\ (log[Len(log)][2] = "failed to sync TSC") <=> (FailedStep(res) = "sync_tsc")

\* C14: recv_aux_timeout computes its deadline once, at entry, as now + budget,
\* and keeps it while it waits.  Each iteration tests the link first (down:
\* the link-down error), then now > deadline (the timeout error), then the
\* receive (transport error: the packet error; a packet of any type: returned
\* to the caller; nothing: loop again).  An iteration that sees the link down
\* or the deadline passed consumes no packet.
C14_RecvAuxOrder ==
    /\ [][(pc' \in Waits /\ <<pc', dest', Len(trace')>> # <<pc, dest, Len(trace)>>) =>
            max_time' = now + WaitBudget(pc')]_vars
    /\ [][(pc \in Waits /\ <<pc', dest', Len(trace')>> = <<pc, dest, Len(trace)>>) =>
            max_time' = max_time]_vars
    /\ [][Poll =>
            IF ~link_up
            THEN res'[pc] = "link went down" /\ trace' = trace /\ pc' = "idle"
            ELSE IF now > max_time
            THEN res'[pc] = "timeout" /\ trace' = trace /\ pc' = "idle"
            ELSE \/ UNCHANGED <<state, pc, dest, max_time, res, trace, log>>
                 \/ /\ Len(trace') > Len(trace)
                    /\ SubSeq(trace', 1, Len(trace)) = trace
                    /\ \E r \in RecvOutcomes \ {"None"} :
                         /\ trace'[Len(trace) + 1] = <<"rx", r, 0>>
                         /\ res'[pc] = IF r = "Err" THEN "aux packet error"
                                       ELSE IF r = Expected(pc) THEN "Ok"
                                       ELSE "unexpected reply"]_vars

C14_Witness ==
    /\ top = "set_rank" /\ pc = "idle" /\ link_up
    /\ res["set_rank"] = "timeout"
    /\ trace = << <<"tx", "RoutingSetRank", 0>> >>

\* C15: every service call terminates.  While the clock keeps advancing and
\* the timestamp-broadcast handshake completes, every wait that the bring-up
\* sequence starts returns, so the call in progress ends; and a call of
\* service that does not find an EchoReply in WaitPingReply (any call in Down,
\* SendPing, Up or Failed included) enters no wait at all.
C15_ServiceTerminates ==
    /\ \A w \in Waits \cup Entries \cup {"set_time"} : \A i \in 0..DEST_COUNT :
         (pc = w /\ dest = i) ~> ~(pc = w /\ dest = i)
    /\ (pc # "idle") ~> (pc \in {"idle", "panic"})
    /\ [][(ServiceTerm /\ ~(state = "WaitPingReply" /\ link_up
                            /\ trace' # <<>> /\ trace'[1] = RxEchoReply)) =>
            pc' \in {"idle", "panic"}]_vars

C15_Witness ==
    /\ top = "service" /\ pc = "idle" /\ state = "Failed" /\ link_up
    /\ res["sync_tsc"] = "Ok" /\ res["load_routing_table"] = "Ok"
    /\ res["set_rank"] = "timeout"

HwSetTime == <<"hw", "set_time", 0>>

\* C16: sync_tsc called in state Up first triggers the timestamp broadcast and
\* then waits at most 10000 ms for a packet.  The first packet received after
\* the broadcast is the answer: sync_tsc returns Ok only if it is TSCAck; any
\* other packet (a late EchoReply, say) makes it fail at once, without a
\* further receive in which a TSCAck could still arrive.
C16_SyncTscFirstPacket ==
    /\ [](\A p \in 1..Len(trace) : trace[p] = HwSetTime =>
            /\ pc = "set_time" => p = Len(trace)
            /\ p = Len(trace) =>
                  \/ pc \in {"set_time", "sync_tsc", "panic"}
                  \/ pc = "idle" /\ res["sync_tsc"] \in {"link went down", "timeout"}
            /\ p < Len(trace) =>
                  /\ trace[p + 1][1] = "rx"
                  /\ res["sync_tsc"] = IF trace[p + 1] = RxTSCAck THEN "Ok"
                                       ELSE IF trace[p + 1][2] = "Err" THEN "aux packet error"
                                       ELSE "unexpected reply"
                  /\ trace[p + 1] # RxTSCAck => (pc = "idle" /\ Len(trace) = p + 1))
    /\ [][(Driver /\ top' = "sync_tsc" /\ state = "Up") =>
            (trace' = <<HwSetTime>> /\ pc' = "set_time")]_vars
    /\ [][(pc = "set_time" /\ pc' # "set_time") =>
            (pc' = "sync_tsc" /\ max_time' = now + TSC_TIMEOUT /\ trace' = trace)]_vars

C16_Witness ==
    /\ top = "sync_tsc" /\ pc = "idle" /\ state = "Up"
    /\ trace = <<HwSetTime, RxEchoReply>>
    /\ res["sync_tsc"] = "unexpected reply"

\* an acknowledgment of the bring-up run by the service call in progress is
\* still awaited
AckOutstanding == top = "service" /\ pc \in Waits \cup Entries \cup {"set_time"}

\* C17 (as stated): at no point of an execution is the state Up while an
\* acknowledgment of the current bring-up (TSCAck, the RoutingAck of a path or
\* of the rank) is still outstanding.
C17_NeverUpWhileAckOutstanding == ~(state = "Up" /\ AckOutstanding)

\* the events of a bring-up in which every request was acknowledged
FullBringUpTrace ==
    [p \in 1..(2 * DEST_COUNT + 5) |->
        IF p = 1 THEN RxEchoReply
        ELSE IF p = 2 THEN HwSetTime
        ELSE IF p = 3 THEN RxTSCAck
        ELSE IF p = 2 * DEST_COUNT + 4 THEN <<"tx", "RoutingSetRank", 0>>
        ELSE IF p % 2 = 1 THEN RxRoutingAck
        ELSE <<"tx", "RoutingSetPath", (p - 4) \div 2>>]

\* the state is Up and no call of service is executing
Established == state = "Up" /\ ~(top = "service" /\ pc # "idle")

\* C17 (amended): service stores Up when it finds the EchoReply, before the
\* bring-up steps, and holds it while it waits for their acknowledgments; but
\* a state Up that outlasts the call, the one every other caller sees, is
\* reached only by the return of a service call whose bring-up had the TSC
\* sync, every RoutingSetPath and the RoutingSetRank acknowledged, in this
\* order.  A bring-up that fails leaves Failed, never Up.
C17_UpOutlastsCallOnlyAfterAcks ==
    /\ [][(~Established /\ Established') =>
            /\ top' = "service" /\ pc' = "idle"
            /\ trace' = FullBringUpTrace
            /\ \A o \in Ops : res'[o] = "Ok"]_vars
    /\ [][(AckOutstanding /\ ~AckOutstanding') =>
            (state' \in {"Up", "Failed"} /\ (state' = "Up" => Established' \/ pc' = "panic"))]_vars
    /\ [](AckOutstanding => state = "Up")

C17_Witness ==
    /\ state = "Up" /\ top = "service" /\ pc = "idle"
    /\ trace = FullBringUpTrace

\* C18: a service call in SendPing{n} with the link up sends exactly one
\* EchoRequest (the send succeeding) and moves to WaitPingReply{n+1, now+100};
\* a service call in WaitPingReply{n, d} with the link up that receives
\* nothing while now <= d sends nothing and leaves n and d as they are; the
\* state leaves WaitPingReply for SendPing or Failed only when now > d.
C18_PingStep ==
    /\ [][(Service /\ state = "SendPing" /\ link_up /\ pc' # "panic") =>
            /\ state' = "WaitPingReply"
            /\ ping_count' = ping_count + 1
            /\ timeout' = now + PING_TIMEOUT
            /\ trace' = << <<"tx", "EchoRequest", 0>> >>
            /\ pc' = "idle"]_vars
    /\ [][(/\ Service /\ state = "WaitPingReply" /\ link_up /\ now <= timeout
           /\ ~(trace' # <<>> /\ trace'[1][1] = "rx")) =>
            /\ state' = "WaitPingReply"
            /\ ping_count' = ping_count
            /\ timeout' = timeout
            /\ trace' = <<>>
            /\ pc' = "idle"]_vars
    /\ [][(state = "WaitPingReply" /\ state' \in {"SendPing", "Failed"}) =>
            (Service /\ link_up /\ now > timeout)]_vars

\* service was called at the very deadline of a probe, found no packet, and
\* went on waiting
C18_Witness ==
    /\ state = "WaitPingReply" /\ now = timeout /\ link_up
    /\ top = "service" /\ pc = "idle" /\ trace = <<>> /\ polled

\* C19: ping_count is within 0..200 in SendPing and within 1..201 in
\* WaitPingReply, so that the increment of the 16-bit counter never wraps; and
\* the deadline held in WaitPingReply is the clock value at the most recent
\* EchoRequest send plus 100: it is set to that when the probe is sent and
\* kept, no further probe being sent, as long as the state stays WaitPingReply.
C19_PingCountAndDeadline ==
    /\ [](state = "SendPing" => ping_count \in 0..MAX_PINGS)
    /\ [](state = "WaitPingReply" => ping_count \in 1..(MAX_PINGS + 1))
    /\ [](ping_count + 1 < U16)
    /\ [][(state # "WaitPingReply" /\ state' = "WaitPingReply") =>
            /\ trace' = << <<"tx", "EchoRequest", 0>> >>
            /\ echo_sent' = echo_sent + 1
            /\ timeout' = now + PING_TIMEOUT
            /\ ping_count' = ping_count + 1]_vars
    /\ [][(state = "WaitPingReply" /\ state' = "WaitPingReply") =>
            /\ timeout' = timeout
            /\ ping_count' = ping_count
            /\ echo_sent' = echo_sent]_vars

\* the 200th probe has expired and the last one is about to be sent
C19_Witness ==
    state = "SendPing" /\ ping_count = MAX_PINGS /\ top = "service" /\ link_up

\* C20: in WaitPingReply with the link up, service examines the receive
\* before the deadline.  An EchoReply found by the call starts the bring-up
\* sequence whatever the clock and ping_count are (past the deadline, after
\* the 201st probe); any other packet and a transport error are consumed and
\* the call goes on as if nothing had been received: state unchanged while
\* now <= deadline, otherwise SendPing with the same count, or Failed once
\* ping_count is above 200; the bring-up is not started.
C20_ReceiveBeforeDeadline ==
    [][(Service /\ state = "WaitPingReply" /\ link_up) =>
         IF trace' # <<>> /\ trace'[1] = RxEchoReply
         THEN /\ state' = "Up"
              /\ pc' = "set_time"
              /\ trace' = <<RxEchoReply, HwSetTime>>
         ELSE /\ pc' = "idle"
              /\ res' = NoRes
              /\ Len(trace') <= 1
              /\ IF now <= timeout
                 THEN UNCHANGED <<state, ping_count, timeout>>
                 ELSE IF ping_count > MAX_PINGS
                 THEN state' = "Failed"
                 ELSE state' = "SendPing" /\ ping_count' = ping_count]_vars

\* the reply to the 201st probe was found after its deadline and started the
\* bring-up
C20_Witness ==
    /\ state = "Up" /\ pc = "set_time" /\ BringUpRun
    /\ echo_sent = MAX_PINGS + 1 /\ overdue

====
